---- MODULE Spec2Model ----
(***************************************************************************)
(* The encoder chain of wxfserializer/wxfencoder.py: WXFEncoder (the       *)
(* wrapper _encode and the re-entrant helper serialize), the concrete      *)
(* DefaultWXFEncoder, and the provider whose provide_wxfexpr the encoders  *)
(* delegate to.  Every Python generator is a frame on a stack; one Pull is *)
(* one next() of the consumer on the outermost generator.                  *)
(***************************************************************************)
EXTENDS Integers, Sequences, FiniteSets, TLC

\* ------------------------------------------------------------------ bounds
\* Largest number of nodes of an enumerated Python value.
MaxNodes == 2
\* Largest number of encoders registered in the chain.
MaxEncoders == 2

\* ----------------------------------------------------------- Python values
\* A Python object: its runtime type, its scalar payload (printed) and its
\* children (list elements, dict entries, the parts of a complex number, the
\* attribute of a user class).
PyVal(t, v, items) == [type |-> t, val |-> v, items |-> items]

PyStr(s) == PyVal("str", s, <<>>)
PyInt(n) == PyVal("int", n, <<>>)
PyBool(b) == PyVal("bool", b, <<>>)
PyNone == PyVal("NoneType", "None", <<>>)
PyFloat(x) == PyVal("float", x, <<>>)
\* complex(re, im): .real and .imag are floats
PyComplex(re, im) == PyVal("complex", "", <<PyFloat(re), PyFloat(im)>>)
\* a tuple: a native type the default encoder has no rule for
PyTuple == PyVal("tuple", "()", <<>>)
PyList(elems) == PyVal("list", "", elems)
\* one (key, value) pair of dict.items()
PyEntry(k, v) == PyVal("entry", "", <<k, v>>)
\* a dict, as the sequence of its entries in iteration order
PyDict(entries) == PyVal("dict", "", entries)
\* an instance of a user class Foo with one attribute, data
PyFoo(data) == PyVal("Foo", "", <<data>>)

Atoms ==
    { PyStr("a"), PyInt("1"), PyBool("True"), PyBool("False"), PyNone,
      PyFloat("1.5"), PyComplex("1.5", "2.5"), PyTuple }

\* hashable values used as dict keys
KeyAtoms == { PyStr("a"), PyInt("1") }

Keys(entries) == { entries[i].items[1] : i \in DOMAIN entries }

RECURSIVE ValuesOfSize(_), SeqsOfSize(_), EntriesOfSize(_)
\* the values made of exactly n nodes
ValuesOfSize(n) ==
    IF n < 1 THEN {}
    ELSE (IF n = 1 THEN Atoms ELSE {})
         \cup { PyList(s) : s \in SeqsOfSize(n - 1) }
         \cup { PyDict(s) : s \in EntriesOfSize(n - 1) }
         \cup { PyFoo(x) : x \in ValuesOfSize(n - 1) }

\* the sequences of values of n nodes in all
SeqsOfSize(n) ==
    IF n = 0 THEN { <<>> }
    ELSE UNION { { <<x>> \o s : x \in ValuesOfSize(k), s \in SeqsOfSize(n - k) }
                 : k \in 1..n }

\* the entry sequences (distinct keys) of n nodes in all, a key being one node
EntriesOfSize(n) ==
    IF n = 0 THEN { <<>> }
    ELSE UNION { UNION { { <<PyEntry(k, x)>> \o s :
                             x \in ValuesOfSize(j),
                             s \in { t \in EntriesOfSize(n - 1 - j) : k \notin Keys(t) } }
                         : k \in KeyAtoms }
                 : j \in 1..(n - 1) }

\* values named by the documentation and the tests of the encoder, and
\* larger shapes of the same kinds
Examples ==
    { PyList(<<PyInt("1"), PyList(<<PyInt("2"), PyInt("3")>>)>>),
      PyDict(<<PyEntry(PyStr("a"), PyStr("a")),
               PyEntry(PyInt("1"), PyList(<<PyStr("a")>>))>>),
      PyFoo(PyDict(<<PyEntry(PyStr("a"), PyInt("1"))>>)),
      PyFoo(PyList(<<PyInt("1"), PyStr("a")>>)),
      PyList(<<PyDict(<<PyEntry(PyStr("a"), PyComplex("1.5", "2.5"))>>),
               PyBool("True")>>),
      PyList(<<PyInt("1"), PyTuple, PyInt("2")>>),
      PyDict(<<PyEntry(PyStr("a"), PyTuple), PyEntry(PyInt("1"), PyInt("2"))>>),
      PyList(<<PyStr("a"), PyList(<<PyTuple>>)>>) }

Values == UNION { ValuesOfSize(n) : n \in 1..MaxNodes } \cup Examples

\* ------------------------------------------------------------------ tokens
\* A WXFExpr: its kind, its payload and, for a header, its declared arity.
Tok(kind, val, arity) == [kind |-> kind, val |-> val, arity |-> arity]

WXFExprString(s) == Tok("String", s, 0)
WXFExprInteger(n) == Tok("Integer", n, 0)
WXFExprReal(x) == Tok("Real", x, 0)
WXFExprSymbol(name) == Tok("Symbol", name, 0)
WXFExprFunction(n) == Tok("Function", "", n)
WXFExprAssociation(n) == Tok("Association", "", n)
WXFExprRule == Tok("Rule", "", 2)
\* Python's None, where a generator element or the local `value` holds it
NoneValue == Tok("None", "", 0)

\* -------------------------------------------------------------- exceptions
Exc(name, arg) == [name |-> name, arg |-> arg]
NoExc == Exc("", "")
NotEncodedException == Exc("NotEncodedException", "")
UnsupportedTypeError(t) == Exc("UnsupportedTypeError", t)
RuntimeError == Exc("RuntimeError", "")
AttributeError == Exc("AttributeError", "_provider")

\* ------------------------------------------------ the body of a generator
\* encode(o) is straight-line once o is known: a sequence of `yield tok`,
\* `for x in self.serialize(arg): yield x` and `raise exc`.
Yield(tok) == [op |-> "yield", tok |-> tok, arg |-> PyNone, exc |-> NoExc]
Serialize(arg) == [op |-> "serialize", tok |-> NoneValue, arg |-> arg, exc |-> NoExc]
Raise(exc) == [op |-> "raise", tok |-> NoneValue, arg |-> PyNone, exc |-> exc]

\* isinstance(o, cls); bool is a subclass of int
IsInstance(o, cls) ==
    CASE cls = "string_types" -> o.type = "str"
      [] cls = "integer_types" -> o.type \in {"int", "bool"}
      [] OTHER -> o.type = cls

\* EncodeList with the head counted in the arity
EncodeListArityWithHead(o) ==
    <<Yield(WXFExprFunction(Len(o.items) + 1)), Yield(WXFExprSymbol("List"))>>
    \o [i \in 1..Len(o.items) |-> Serialize(o.items[i])]

\* EncodeList serializing the elements before it yields its header
EncodeListChildrenFirst(o) ==
    [i \in 1..Len(o.items) |-> Serialize(o.items[i])]
    \o <<Yield(WXFExprFunction(Len(o.items))), Yield(WXFExprSymbol("List"))>>

\* EncodeList walking the list from its end
EncodeListReversed(o) ==
    <<Yield(WXFExprFunction(Len(o.items))), Yield(WXFExprSymbol("List"))>>
    \o [i \in 1..Len(o.items) |-> Serialize(o.items[Len(o.items) + 1 - i])]

\* DefaultWXFEncoder.encode, the list branch
EncodeList(o) ==
    <<Yield(WXFExprFunction(Len(o.items))), Yield(WXFExprSymbol("List"))>>
    \o [i \in 1..Len(o.items) |-> Serialize(o.items[i])]

\* EncodeDict emitting the value of an entry before its key
EncodeDictValueFirst(o) ==
    <<Yield(WXFExprAssociation(Len(o.items)))>>
    \o [j \in 1..(3 * Len(o.items)) |->
          LET entry == o.items[((j - 1) \div 3) + 1]
          IN  IF (j - 1) % 3 = 0 THEN Yield(WXFExprRule)
              ELSE IF (j - 1) % 3 = 1 THEN Serialize(entry.items[2])
              ELSE Serialize(entry.items[1])]

\* DefaultWXFEncoder.encode, the dict branch: per entry of items(), the
\* rule marker, the key, the value
EncodeDict(o) ==
    <<Yield(WXFExprAssociation(Len(o.items)))>>
    \o [j \in 1..(3 * Len(o.items)) |->
          LET entry == o.items[((j - 1) \div 3) + 1]
          IN  IF (j - 1) % 3 = 0 THEN Yield(WXFExprRule)
              ELSE IF (j - 1) % 3 = 1 THEN Serialize(entry.items[1])
              ELSE Serialize(entry.items[2])]

\* EncodeComplex delegating the real and imaginary parts to the chain
EncodeComplexDelegating(o) ==
    <<Yield(WXFExprFunction(2)), Yield(WXFExprSymbol("Complex")),
      Serialize(o.items[1]), Serialize(o.items[2])>>

\* DefaultWXFEncoder.encode, the complex branch
EncodeComplex(o) ==
    <<Yield(WXFExprFunction(2)), Yield(WXFExprSymbol("Complex")),
      Yield(WXFExprReal(o.items[1].val)), Yield(WXFExprReal(o.items[2].val))>>

\* a default encoder that claims every value, with a symbol of the type's name
DefaultEncodeCatchAll(o) ==
    IF IsInstance(o, "string_types") THEN <<Yield(WXFExprString(o.val))>>
    ELSE IF IsInstance(o, "integer_types") THEN <<Yield(WXFExprInteger(o.val))>>
    ELSE IF IsInstance(o, "list") THEN EncodeList(o)
    ELSE IF IsInstance(o, "dict") THEN EncodeDict(o)
    ELSE IF o = PyBool("True") THEN <<Yield(WXFExprSymbol("True"))>>
    ELSE IF o = PyBool("False") THEN <<Yield(WXFExprSymbol("False"))>>
    ELSE IF o = PyNone THEN <<Yield(WXFExprSymbol("None"))>>
    ELSE IF IsInstance(o, "float") THEN <<Yield(WXFExprReal(o.val))>>
    ELSE IF IsInstance(o, "complex") THEN EncodeComplex(o)
    ELSE <<Yield(WXFExprSymbol(o.type))>>

\* DefaultWXFEncoder.encode: the if/elif chain, in the order of the source
DefaultEncode(o) ==
    IF IsInstance(o, "string_types") THEN <<Yield(WXFExprString(o.val))>>
    ELSE IF IsInstance(o, "integer_types") THEN <<Yield(WXFExprInteger(o.val))>>
    ELSE IF IsInstance(o, "list") THEN EncodeList(o)
    ELSE IF IsInstance(o, "dict") THEN EncodeDict(o)
    ELSE IF o = PyBool("True") THEN <<Yield(WXFExprSymbol("True"))>>
    ELSE IF o = PyBool("False") THEN <<Yield(WXFExprSymbol("False"))>>
    ELSE IF o = PyNone THEN <<Yield(WXFExprSymbol("None"))>>
    ELSE IF IsInstance(o, "float") THEN <<Yield(WXFExprReal(o.val))>>
    ELSE IF IsInstance(o, "complex") THEN EncodeComplex(o)
    ELSE <<>>

\* ------------------------------------------------------- the user encoders
\* Subclasses of WXFEncoder a client registers.  StrEncoder overrides a
\* built-in type; FooEncoder is the encoder of the serialize docstring (a
\* function with head Foo, its attribute re-entrantly serialized);
\* RaisingEncoder fails on floats before its first token and on None after it.
StrEncode(o) ==
    IF IsInstance(o, "str") THEN <<Yield(WXFExprSymbol(o.val))>> ELSE <<>>

FooEncode(o) ==
    IF IsInstance(o, "Foo")
    THEN <<Yield(WXFExprFunction(1)), Yield(WXFExprSymbol("Foo")), Serialize(o.items[1])>>
    ELSE <<>>

RaisingEncode(o) ==
    IF IsInstance(o, "float") THEN <<Raise(RuntimeError)>>
    ELSE IF o = PyNone THEN <<Yield(WXFExprSymbol("Null")), Raise(RuntimeError)>>
    ELSE <<>>

\* An encoder whose encode yields None among its elements: after a token for
\* a string, alone for an integer, before a token for a float.
NoneEncode(o) ==
    IF IsInstance(o, "str") THEN <<Yield(WXFExprSymbol(o.val)), Yield(NoneValue)>>
    ELSE IF IsInstance(o, "int") THEN <<Yield(NoneValue)>>
    ELSE IF IsInstance(o, "float") THEN <<Yield(NoneValue), Yield(WXFExprReal(o.val))>>
    ELSE <<>>

\* the encoders whose encode yields WXFExpr only
Encoders == {"Default", "StrEncoder", "FooEncoder", "RaisingEncoder"}

\* every encoder object there is
AllEncoders == Encoders \cup {"NoneEncoder"}

\* encoder.encode(o), by the class of the encoder
Encode(enc, o) ==
    CASE enc = "Default" -> DefaultEncode(o)
      [] enc = "StrEncoder" -> StrEncode(o)
      [] enc = "FooEncoder" -> FooEncode(o)
      [] enc = "RaisingEncoder" -> RaisingEncode(o)
      [] enc = "NoneEncoder" -> NoneEncode(o)

\* ----------------------------------------------------------------- state
VARIABLES
    chain,      \* the provider's encoders, in the order they are tried
    provider,   \* encoder -> its _provider ("None" until it is registered)
    status,     \* "assembling" | "idle" | "active" | "done" | "failed" | "abandoned"
    value,      \* the object of the encode call in progress
    stack,      \* the suspended generators, outermost first
    out,        \* the tokens the consumer has received
    error,      \* the exception the consumer has received
    log,        \* history: the encode invocations, in order
    fin,        \* history: the serialize delegations that have ended
    ncalls,     \* the provide_wxfexpr calls so far
    other       \* a second, independent encode call on the same provider

vars == <<chain, provider, status, value, stack, out, error, log, fin, ncalls, other>>

\* --------------------------------------------------------------- the frames
\* A generator frame.  kind "provide": provide_wxfexpr(o), trying encoder
\* number pc, claimed once that encoder has produced an element; "_encode":
\* enc._encode(o) with its local `value`; "encode": enc.encode(o) about to run
\* instruction pc; "serialize": enc.serialize(o), entered after `start` tokens.
Frame(kind, enc, o, pc, call, start) ==
    [kind |-> kind, enc |-> enc, o |-> o, pc |-> pc, value |-> NoneValue,
     claimed |-> FALSE, call |-> call, start |-> start]

ProvideFrame(o, call) == Frame("provide", "", o, 0, call, 0)

\* control inside one next(): a resumption travelling in, or an element, a
\* StopIteration or an exception travelling out
Sig(t, tok, exc) == [t |-> t, tok |-> tok, exc |-> exc]
SigNext == Sig("next", NoneValue, NoExc)
SigYield(tok) == Sig("yield", tok, NoExc)
SigStop == Sig("stop", NoneValue, NoExc)
SigRaise(exc) == Sig("raise", NoneValue, exc)

Top(s) == s[Len(s)]
Pop(s) == SubSeq(s, 1, Len(s) - 1)
SetTop(s, f) == [s EXCEPT ![Len(s)] = f]
Levels(s) == Cardinality({ i \in DOMAIN s : s[i].kind = "provide" })

\* An element passes through every suspended generator on its way out:
\* `for value in self.encode(o): yield value` keeps it in value, and the
\* provider has then pulled an element of the encoder it is trying.
Bubble(s, tok) ==
    [i \in DOMAIN s |->
        IF s[i].kind = "_encode" THEN [s[i] EXCEPT !.value = tok]
        ELSE IF s[i].kind = "provide" THEN [s[i] EXCEPT !.claimed = TRUE]
        ELSE s[i]]

\* EncodeWrapperEnd without the decline signal
EncodeWrapperEndNeverDeclines(f) == SigStop

\* EncodeWrapperEnd giving the decline signal after every attempt
EncodeWrapperEndAlwaysDeclines(f) == SigRaise(NotEncodedException)

\* WXFEncoder._encode once encode(o) is exhausted
EncodeWrapperEnd(f) ==
    IF f.value = NoneValue THEN SigRaise(NotEncodedException) ELSE SigStop

\* EncodeWrapperRaise turning every failure into the decline signal
EncodeWrapperRaiseAsDeclined(exc) == SigRaise(NotEncodedException)

\* WXFEncoder._encode when encode(o) raises: its loop has no handler, the
\* exception passes through
EncodeWrapperRaise(exc) == SigRaise(exc)

\* The interpreter state inside one next(): the frames, the control signal
\* and the history.
Machine(s, sig, lg, fn, n) ==
    [stack |-> s, sig |-> sig, log |-> lg, fin |-> fn, ncalls |-> n,
     provider |-> provider]

\* the record of one encode invocation: after `at` tokens, `level` provider
\* calls deep, for provider call `call`
Invocation(enc, o, call, at, level) ==
    [enc |-> enc, o |-> o, call |-> call, at |-> at, level |-> level]

\* the record of one ended serialize(o): the tokens it forwarded and how it
\* ended (NoExc: exhausted)
Delegation(f, sent, exc) ==
    [enc |-> f.enc, o |-> f.o,
     toks |-> SubSeq(sent, f.start + 1, Len(sent)), end |-> exc]

\* provide_wxfexpr moving to its next encoder: enc._encode(o) is created and
\* iterated, which starts enc.encode(o); with no encoder left it raises.
ProvideNext(m, sent) ==
    LET f == Top(m.stack)
        j == f.pc + 1
    IN  IF j > Len(chain)
        THEN [m EXCEPT !.stack = Pop(m.stack),
                       !.sig = SigRaise(UnsupportedTypeError(f.o.type))]
        ELSE [m EXCEPT
                !.stack = SetTop(m.stack, [f EXCEPT !.pc = j])
                          \o <<Frame("_encode", chain[j], f.o, 0, f.call, 0),
                               Frame("encode", chain[j], f.o, 1, f.call, 0)>>,
                !.log = Append(m.log,
                               Invocation(chain[j], f.o, f.call, Len(sent),
                                          Levels(m.stack))),
                !.sig = SigNext]

\* provide_wxfexpr receiving an exception from the encoder it is trying: the
\* decline signal of an encoder that has produced nothing moves it on, any
\* other exception passes through
ProvideCatch(m, sent) ==
    IF m.sig.exc = NotEncodedException /\ ~Top(m.stack).claimed
    THEN ProvideNext(m, sent)
    ELSE [m EXCEPT !.stack = Pop(m.stack)]

\* SerializeCall iterating the encoder's own encode(arg), not the provider
SerializeCallOwnEncode(m, f, arg, sent) ==
    [m EXCEPT
       !.stack = m.stack
                 \o <<Frame("serialize", f.enc, arg, 0, 0, Len(sent)),
                      Frame("encode", f.enc, arg, 1, 0, 0)>>,
       !.log = Append(m.log,
                      Invocation(f.enc, arg, 0, Len(sent), Levels(m.stack)))]

\* SerializeCall giving up the encoder's provider once it has used it
SerializeCallDetaching(m, f, arg, sent) ==
    IF m.provider[f.enc] = "None"
    THEN [m EXCEPT !.stack = Pop(m.stack), !.sig = SigRaise(AttributeError)]
    ELSE [m EXCEPT
            !.stack = m.stack
                      \o <<Frame("serialize", f.enc, arg, 0, 0, Len(sent)),
                           ProvideFrame(arg, m.ncalls + 1)>>,
            !.ncalls = m.ncalls + 1,
            !.provider = [m.provider EXCEPT ![f.enc] = "None"]]

\* WXFEncoder.serialize(arg) called by frame f: it iterates
\* self._provider.provide_wxfexpr(arg); an encoder that was never registered
\* has _provider = None
SerializeCall(m, f, arg, sent) ==
    IF m.provider[f.enc] = "None"
    THEN [m EXCEPT !.stack = Pop(m.stack), !.sig = SigRaise(AttributeError)]
    ELSE [m EXCEPT
            !.stack = m.stack
                      \o <<Frame("serialize", f.enc, arg, 0, 0, Len(sent)),
                           ProvideFrame(arg, m.ncalls + 1)>>,
            !.ncalls = m.ncalls + 1]

\* SerializeRaise skipping the value that failed
SerializeRaiseSwallowed(exc) == SigStop

\* WXFEncoder.serialize when the provider's generator raises: it has no
\* handler, the exception passes through
SerializeRaise(exc) == SigRaise(exc)

\* the running encode(o) executing its next instruction
EncodeResume(m, sent) ==
    LET f == Top(m.stack)
        body == Encode(f.enc, f.o)
    IN  IF f.pc > Len(body)
        THEN [m EXCEPT !.stack = Pop(m.stack), !.sig = SigStop]
        ELSE LET ins == body[f.pc]
             IN  CASE ins.op = "yield" ->
                        [m EXCEPT
                           !.stack = Bubble(SetTop(m.stack, [f EXCEPT !.pc = f.pc + 1]),
                                            ins.tok),
                           !.sig = SigYield(ins.tok)]
                   [] ins.op = "serialize" -> SerializeCall(m, f, ins.arg, sent)
                   [] ins.op = "raise" ->
                        [m EXCEPT !.stack = Pop(m.stack), !.sig = SigRaise(ins.exc)]

\* one step of control: the signal meets the innermost suspended generator
Step(m, sent) ==
    LET f == Top(m.stack)
        onStop ==
            CASE f.kind = "_encode" ->
                   [m EXCEPT !.stack = Pop(m.stack), !.sig = EncodeWrapperEnd(f)]
              [] f.kind = "provide" -> [m EXCEPT !.stack = Pop(m.stack)]
              [] f.kind = "serialize" ->
                   [m EXCEPT !.stack = Pop(m.stack),
                             !.fin = Append(m.fin, Delegation(f, sent, NoExc))]
              [] f.kind = "encode" ->
                   [m EXCEPT !.stack = SetTop(m.stack, [f EXCEPT !.pc = f.pc + 1]),
                             !.sig = SigNext]
        onRaise ==
            CASE f.kind = "provide" -> ProvideCatch(m, sent)
              [] f.kind = "serialize" ->
                   [m EXCEPT !.stack = Pop(m.stack),
                             !.fin = Append(m.fin, Delegation(f, sent, m.sig.exc)),
                             !.sig = SerializeRaise(m.sig.exc)]
              [] f.kind = "_encode" ->
                   [m EXCEPT !.stack = Pop(m.stack),
                             !.sig = EncodeWrapperRaise(m.sig.exc)]
              [] OTHER -> [m EXCEPT !.stack = Pop(m.stack)]
    IN  IF m.sig.t = "next"
        THEN (IF f.kind = "provide" THEN ProvideNext(m, sent) ELSE EncodeResume(m, sent))
        ELSE IF m.sig.t = "stop" THEN onStop
        ELSE onRaise

\* control is back with the consumer
Halted(m) == m.sig.t = "yield" \/ m.stack = <<>>

\* one next() of the consumer: control runs until an element, the end of the
\* stream or an exception reaches it (each step's machine is bound as a
\* value before the next step reads it)
RECURSIVE Run(_, _)
Run(m, sent) ==
    IF Halted(m) THEN m
    ELSE CHOOSE r \in { Run(n, sent) : n \in {Step(m, sent)} } : TRUE

Resume(m, sent) ==
    CHOOSE r \in { Run(n, sent) : n \in {Step([m EXCEPT !.sig = SigNext], sent)} } : TRUE

\* what a consumer that pulls to the end receives from the generators in s
RECURSIVE Drain(_, _)
Drain(m, sent) ==
    LET r == Resume(m, sent)
    IN  IF r.sig.t = "yield" THEN Drain(r, Append(sent, r.sig.tok))
        ELSE [toks |-> sent,
              end |-> IF r.sig.t = "raise" THEN r.sig.exc ELSE NoExc,
              log |-> r.log, fin |-> r.fin]

\* provide_wxfexpr(o) consumed at top level
ProvideTokens(o) == Drain(Machine(<<ProvideFrame(o, 1)>>, SigNext, <<>>, <<>>, 1), <<>>)

\* enc._encode(o) consumed on its own: the attempt of one encoder
Attempt(enc, o) ==
    Drain(Machine(<<Frame("_encode", enc, o, 0, 0, 0), Frame("encode", enc, o, 1, 0, 0)>>,
                  SigNext, <<>>, <<>>, 1), <<>>)

\* ----------------------------------------------------------------- actions
NoCall ==
    /\ value = PyNone
    /\ stack = <<>>
    /\ out = <<>>
    /\ error = NoExc
    /\ log = <<>>
    /\ fin = <<>>
    /\ ncalls = 0

\* a call that has not been made
IdleCall ==
    [status |-> "idle", value |-> PyNone, stack |-> <<>>, out |-> <<>>,
     error |-> NoExc]

Init ==
    /\ chain = <<>>
    /\ provider = [e \in AllEncoders |-> "None"]
    /\ status = "assembling"
    /\ NoCall
    /\ other = IdleCall

\* registration that adds the encoder to the list without binding the provider
RegisterUnbound(enc, position) ==
    /\ status = "assembling"
    /\ Len(chain) < MaxEncoders
    /\ enc \notin { chain[i] : i \in DOMAIN chain }
    /\ chain' = IF position = "append" THEN Append(chain, enc) ELSE <<enc>> \o chain
    /\ UNCHANGED <<provider, status, value, stack, out, error, log, fin, ncalls, other>>

\* provider registration: the encoder joins the ordered list, at its end or
\* its front, and the provider becomes its delegation target
Register(enc, position) ==
    /\ status = "assembling"
    /\ Len(chain) < MaxEncoders
    /\ enc \notin { chain[i] : i \in DOMAIN chain }
    /\ chain' = IF position = "append" THEN Append(chain, enc) ELSE <<enc>> \o chain
    /\ provider' = [provider EXCEPT ![enc] = "chain"]
    /\ UNCHANGED <<status, value, stack, out, error, log, fin, ncalls, other>>

\* the consumer calls provide_wxfexpr(v): a generator is created, no code of
\* it has run yet
StartEncode(v) ==
    /\ status \in {"assembling", "idle"}
    /\ status' = "active"
    /\ value' = v
    /\ stack' = <<ProvideFrame(v, 1)>>
    /\ out' = <<>>
    /\ error' = NoExc
    /\ log' = <<>>
    /\ fin' = <<>>
    /\ ncalls' = 1
    /\ UNCHANGED <<chain, provider, other>>

\* the consumer's next() on the stream
Pull ==
    /\ status = "active"
    /\ LET r == Resume(Machine(stack, SigNext, log, fin, ncalls), out)
       IN  /\ stack' = r.stack
           /\ log' = r.log
           /\ fin' = r.fin
           /\ ncalls' = r.ncalls
           /\ provider' = r.provider
           /\ out' = IF r.sig.t = "yield" THEN Append(out, r.sig.tok) ELSE out
           /\ error' = IF r.sig.t = "raise" THEN r.sig.exc ELSE NoExc
           /\ status' = CASE r.sig.t = "yield" -> "active"
                          [] r.sig.t = "stop" -> "done"
                          [] r.sig.t = "raise" -> "failed"
    /\ UNCHANGED <<chain, value, other>>

\* the consumer stops iterating before the stream has ended; the generators
\* are closed
Abandon ==
    /\ status = "active"
    /\ status' = "abandoned"
    /\ stack' = <<>>
    /\ UNCHANGED <<chain, provider, value, out, error, log, fin, ncalls, other>>

\* the consumer drops a stream that has ended; the provider can be used again
Release ==
    /\ status \in {"done", "failed", "abandoned"}
    /\ status' = "idle"
    /\ value' = PyNone
    /\ stack' = <<>>
    /\ out' = <<>>
    /\ error' = NoExc
    /\ log' = <<>>
    /\ fin' = <<>>
    /\ ncalls' = 0
    /\ UNCHANGED <<chain, provider, other>>

Next ==
    \/ \E enc \in Encoders, position \in {"append", "prepend"} : Register(enc, position)
    \/ \E v \in Values : StartEncode(v)
    \/ Pull
    \/ Abandon
    \/ Release

Spec == Init /\ [][Next]_vars

\* ------------------------------------------------------------ properties
IsPrefix(a, b) == Len(a) <= Len(b) /\ SubSeq(b, 1, Len(a)) = a

Last(s) == s[Len(s)]

\* the encode invocations made by provider call c, in order
CallLog(c) == SelectSeq(log, LAMBDA r : r.call = c)

InCall == status \in {"active", "done", "failed", "abandoned"}

\* the encoder's attempt on o produced nothing and gave the decline signal
Declines(enc, o) ==
    LET a == Attempt(enc, o)
    IN  a.toks = <<>> /\ a.end = NotEncodedException

AllDecline(o) == \A i \in DOMAIN chain : Declines(chain[i], o)

\* C1: first match wins, no backtracking.  The encoders invoked for the value
\* are the first k of the chain, in chain order; all but the last of them
\* declined; once a token is out (or the stream ended) the last one is the
\* first encoder whose attempt yields a token, the output is a prefix of that
\* attempt's tokens and, at the end of the stream, all of them.
C1_FirstMatchWins ==
    InCall =>
        LET tried == CallLog(1)
            k == Len(tried)
        IN  /\ k <= Len(chain)
            /\ \A i \in 1..k : tried[i].enc = chain[i] /\ tried[i].o = value
            /\ \A i \in 1..(k - 1) : Declines(chain[i], value)
            /\ (out # <<>> \/ status = "done") =>
                  /\ k >= 1
                  /\ Attempt(chain[k], value).toks # <<>>
                  /\ IsPrefix(out, Attempt(chain[k], value).toks)
                  /\ status = "done" => out = Attempt(chain[k], value).toks

\* C1 witness: the first encoder declined, the second one's stream was
\* delivered to its end
C1_Witness ==
    /\ status = "done"
    /\ Len(chain) = 2
    /\ Len(CallLog(1)) = 2
    /\ Len(out) >= 3

\* C2 as stated: the call delivers a token or fails with UnsupportedTypeError
\* of the value's type, and fails that way exactly when all encoders decline.
C2_TokensOrUnsupported ==
    /\ status = "done" => out # <<>>
    /\ (status = "failed" /\ out = <<>>) => error = UnsupportedTypeError(value.type)
    /\ status \in {"done", "failed"} =>
          (AllDecline(value)
             <=> (status = "failed" /\ out = <<>>
                  /\ error = UnsupportedTypeError(value.type)))

\* C2, amended: the call delivers a token, or fails with UnsupportedTypeError
\* of the value's type, or fails with the error an encoder's encode raised;
\* it fails with UnsupportedTypeError of the value's type before any token
\* exactly when all encoders decline, and never ends normally with no token.
C2_TokensOrUnsupportedOrEncoderError ==
    /\ status = "done" => out # <<>>
    /\ (status = "failed" /\ out = <<>>) =>
          \/ error = UnsupportedTypeError(value.type)
          \/ \E i \in DOMAIN chain :
                /\ Attempt(chain[i], value).end = error
                /\ error \notin {NoExc, NotEncodedException}
    /\ out # <<>> => ~AllDecline(value)
    /\ status \in {"done", "failed"} =>
          (AllDecline(value)
             <=> (status = "failed" /\ out = <<>>
                  /\ error = UnsupportedTypeError(value.type)))

\* C2 witness: two encoders, both declined, the call failed with the type
C2_Witness ==
    /\ status = "failed"
    /\ Len(chain) = 2
    /\ Len(CallLog(1)) = 2
    /\ out = <<>>
    /\ error = UnsupportedTypeError("tuple")

\* The index just after the complete subtree that starts at toks[i], or 0
\* when there is none: a function header of arity n owns n + 1 subtrees, an
\* association header of arity n owns n rule pairs, a rule marker 2 subtrees.
RECURSIVE SubtreeEnd(_, _), SubtreesEnd(_, _, _), RulesEnd(_, _, _)
SubtreeEnd(toks, i) ==
    IF i < 1 \/ i > Len(toks) THEN 0
    ELSE IF toks[i].kind = "Function" THEN SubtreesEnd(toks, i + 1, toks[i].arity + 1)
    ELSE IF toks[i].kind = "Association" THEN RulesEnd(toks, i + 1, toks[i].arity)
    ELSE IF toks[i].kind = "Rule" THEN SubtreesEnd(toks, i + 1, 2)
    ELSE i + 1

SubtreesEnd(toks, i, n) ==
    IF n = 0 THEN i
    ELSE IF i = 0 THEN 0
    ELSE SubtreesEnd(toks, SubtreeEnd(toks, i), n - 1)

RulesEnd(toks, i, n) ==
    IF n = 0 THEN i
    ELSE IF i < 1 \/ i > Len(toks) THEN 0
    ELSE IF toks[i].kind # "Rule" THEN 0
    ELSE RulesEnd(toks, SubtreeEnd(toks, i), n - 1)

\* C3: arity law.  A stream that a chain of the default encoder alone has
\* delivered to its end is exactly one complete subtree: every function
\* header of arity N is followed by N + 1 subtrees, every association header
\* of arity N by N rule pairs, every rule marker by 2 subtrees.
C3_ArityLaw ==
    (status = "done" /\ chain = <<"Default">>) =>
        SubtreeEnd(out, 1) = Len(out) + 1

\* C3 witness: a complete stream of the default encoder with a list, a
\* mapping, a complex number and a boolean in it
C3_Witness ==
    /\ status = "done"
    /\ chain = <<"Default">>
    /\ value = PyList(<<PyDict(<<PyEntry(PyStr("a"), PyComplex("1.5", "2.5"))>>),
                        PyBool("True")>>)
    /\ Len(out) = 10

\* C4: precedence law.  A boolean encoded by the default encoder gives exactly
\* one symbol token, True or False, and no integer token.
C4_BooleanIsSymbol ==
    (status = "done" /\ chain = <<"Default">> /\ value.type = "bool") =>
        /\ out = <<WXFExprSymbol(value.val)>>
        /\ \A i \in DOMAIN out : out[i].kind # "Integer"

\* the concatenation of the complete top-level streams of the values in vs
RECURSIVE Streams(_)
Streams(vs) ==
    IF vs = <<>> THEN <<>>
    ELSE ProvideTokens(vs[1]).toks \o Streams(SubSeq(vs, 2, Len(vs)))

\* the stream of a list by the claim: header, List, then the elements' streams
ListStream(o) ==
    <<WXFExprFunction(Len(o.items)), WXFExprSymbol("List")>> \o Streams(o.items)

\* C5: depth-first pre-order list encoding.  What has been delivered of a list
\* is a prefix of FunctionHeader(N), Symbol("List") and the elements' complete
\* streams in order, and all of it when the stream has ended; [] and
\* [1, [2, 3]] give the streams the documentation names.
C5_ListPreorder ==
    (InCall /\ value.type = "list") =>
        /\ IsPrefix(out, ListStream(value))
        /\ status = "done" => out = ListStream(value)
        /\ (status = "done" /\ value = PyList(<<>>)) =>
              out = <<WXFExprFunction(0), WXFExprSymbol("List")>>
        /\ (status = "done"
            /\ value = PyList(<<PyInt("1"), PyList(<<PyInt("2"), PyInt("3")>>)>>)) =>
              out = <<WXFExprFunction(2), WXFExprSymbol("List"), WXFExprInteger("1"),
                      WXFExprFunction(2), WXFExprSymbol("List"), WXFExprInteger("2"),
                      WXFExprInteger("3")>>

\* C5 witness: [1, [2, 3]] encoded to its end
C5_Witness ==
    /\ status = "done"
    /\ value = PyList(<<PyInt("1"), PyList(<<PyInt("2"), PyInt("3")>>)>>)
    /\ Len(out) = 7

\* the streams of the entries of a mapping: per entry the rule marker, the
\* key's stream, the value's stream
RECURSIVE EntryStreams(_)
EntryStreams(es) ==
    IF es = <<>> THEN <<>>
    ELSE <<WXFExprRule>>
         \o ProvideTokens(es[1].items[1]).toks
         \o ProvideTokens(es[1].items[2]).toks
         \o EntryStreams(SubSeq(es, 2, Len(es)))

DictStream(o) == <<WXFExprAssociation(Len(o.items))>> \o EntryStreams(o.items)

\* C6: mapping encoding.  What has been delivered of a mapping is a prefix of
\* AssociationHeader(N) and, per entry in iteration order, a rule marker, the
\* key's complete stream, the value's complete stream, and all of it when the
\* stream has ended; {} gives AssociationHeader(0) alone.
C6_MappingEncoding ==
    (InCall /\ value.type = "dict") =>
        /\ IsPrefix(out, DictStream(value))
        /\ status = "done" => out = DictStream(value)
        /\ (status = "done" /\ value = PyDict(<<>>)) => out = <<WXFExprAssociation(0)>>

\* C6 witness: a mapping of two entries, one value a list, encoded to its end
C6_Witness ==
    /\ status = "done"
    /\ chain = <<"Default">>
    /\ Len(value.items) = 2
    /\ value.type = "dict"
    /\ Len(out) = 9

UserEncoders == Encoders \ {"Default"}

Types == { v.type : v \in Values }

\* the (user encoder, type) pairs where the encoder claims every value of
\* the type: its encode starts by yielding a token
ClaimedTypes ==
    { p \in UserEncoders \X Types :
        \A v \in Values :
            v.type = p[2] =>
                /\ Encode(p[1], v) # <<>>
                /\ Encode(p[1], v)[1].op = "yield" }

\* the place of an encoder in the chain, 0 when it is not registered
Pos(enc) ==
    IF \E i \in DOMAIN chain : chain[i] = enc
    THEN CHOOSE i \in DOMAIN chain : chain[i] = enc
    ELSE 0

\* user encoder u is registered ahead of the default encoder and claims type t
Overrides(u, t) ==
    /\ <<u, t>> \in ClaimedTypes
    /\ Pos(u) > 0
    /\ Pos("Default") > Pos(u)

\* C7: extension override.  With a user encoder that claims type X ahead of
\* the default encoder, no encode of the default encoder, nor of any encoder
\* behind the user encoder, is invoked on a value of type X, at top level or
\* nested; a top-level value of type X is encoded by the user encoder.
C7_ExtensionOverride ==
    \A u \in UserEncoders :
        /\ \A i \in DOMAIN log :
              Overrides(u, log[i].o.type) =>
                  /\ log[i].enc # "Default"
                  /\ Pos(log[i].enc) <= Pos(u)
        /\ (InCall /\ Overrides(u, value.type) /\ out # <<>>) =>
              /\ Last(CallLog(1)).enc = u
              /\ IsPrefix(out, Attempt(u, value).toks)
              /\ status = "done" => out = Attempt(u, value).toks

\* C7 witness: strings overridden ahead of the default encoder, and a string
\* met as a mapping key, a mapping value and a list element, all of them
\* reached by the default encoder through serialize
C7_Witness ==
    /\ status = "done"
    /\ chain = <<"StrEncoder", "Default">>
    /\ value = PyDict(<<PyEntry(PyStr("a"), PyStr("a")),
                        PyEntry(PyInt("1"), PyList(<<PyStr("a")>>))>>)
    /\ Cardinality({ i \in DOMAIN log :
                       log[i].enc = "StrEncoder" /\ log[i].o = PyStr("a")
                       /\ log[i].level > 1 }) = 3

\* C8: re-entrant equivalence.  Every serialize(v) that has ended forwarded
\* the tokens that provide_wxfexpr(v) gives at top level on the same chain
\* and ended the same way (exhausted, or the same exception); a serialize(v)
\* still running has forwarded a prefix of them.
C8_ReentrantEquivalence ==
    /\ \A i \in DOMAIN fin :
          /\ fin[i].toks = ProvideTokens(fin[i].o).toks
          /\ fin[i].end = ProvideTokens(fin[i].o).end
    /\ \A i \in DOMAIN stack :
          stack[i].kind = "serialize" =>
              IsPrefix(SubSeq(out, stack[i].start + 1, Len(out)),
                       ProvideTokens(stack[i].o).toks)

\* C8 witness: a user encoder has delegated a native list through serialize
\* and the list's stream has ended
C8_Witness ==
    /\ status = "done"
    /\ value = PyFoo(PyList(<<PyInt("1"), PyStr("a")>>))
    /\ \E i \in DOMAIN fin :
          /\ fin[i].enc = "FooEncoder"
          /\ fin[i].o = PyList(<<PyInt("1"), PyStr("a")>>)
          /\ Len(fin[i].toks) = 4
          /\ fin[i].end = NoExc

\* enc.encode(o) consumed on its own, without the wrapper _encode
EncodeRun(enc, o) ==
    Drain(Machine(<<Frame("encode", enc, o, 1, 0, 0)>>, SigNext, <<>>, <<>>, 1), <<>>)

\* encode of enc on o raises an error that is not the decline signal
Fails(enc, o) == EncodeRun(enc, o).end \notin {NoExc, NotEncodedException}

\* C9: an encoder failure is fatal.  After an encode whose attempt raises an
\* error other than the decline signal, no further encoder is invoked by the
\* same provider call, the stream never ends normally and the caller receives
\* that error; the provider moves past an encoder only when its attempt
\* produced no token and declined.
C9_FailureIsFatal ==
    \A i \in DOMAIN log :
        /\ Fails(log[i].enc, log[i].o) =>
              /\ \A j \in DOMAIN log : j > i => log[j].call # log[i].call
              /\ status # "done"
              /\ status = "failed" => error = EncodeRun(log[i].enc, log[i].o).end
        /\ \A j \in DOMAIN log :
              (j > i /\ log[j].call = log[i].call) => Declines(log[i].enc, log[i].o)

\* C9 witness: an encoder raised after its first token, an encoder is behind
\* it in the chain, and the caller received the error
C9_Witness ==
    /\ status = "failed"
    /\ chain = <<"RaisingEncoder", "Default">>
    /\ value = PyNone
    /\ out = <<WXFExprSymbol("Null")>>
    /\ error = RuntimeError

\* the first element of vs whose top-level stream ends in an exception, 0
\* when there is none
FirstFailing(vs) ==
    IF \E i \in DOMAIN vs : ProvideTokens(vs[i]).end # NoExc
    THEN CHOOSE i \in DOMAIN vs :
            /\ ProvideTokens(vs[i]).end # NoExc
            /\ \A j \in 1..(i - 1) : ProvideTokens(vs[j]).end = NoExc
    ELSE 0

\* the children the default encoder serializes for a list or a mapping, in order
Children(o) ==
    IF o.type = "list" THEN o.items
    ELSE [j \in 1..(2 * Len(o.items)) |-> o.items[(j + 1) \div 2].items[2 - (j % 2)]]

\* the tokens that precede child k of a list or mapping in depth-first order
Preceding(o, k) ==
    IF o.type = "list"
    THEN <<WXFExprFunction(Len(o.items)), WXFExprSymbol("List")>>
         \o Streams(SubSeq(o.items, 1, k - 1))
    ELSE <<WXFExprAssociation(Len(o.items))>>
         \o EntryStreams(SubSeq(o.items, 1, (k - 1) \div 2))
         \o (IF k % 2 = 1 THEN <<WXFExprRule>>
             ELSE <<WXFExprRule>> \o ProvideTokens(Children(o)[k - 1]).toks)

\* the default encoder is the encoder that claims o
EncodedByDefault(o) ==
    /\ Pos("Default") > 0
    /\ \A i \in 1..(Pos("Default") - 1) : Declines(chain[i], o)

\* C10: no partial success, no rollback.  When a child of a list or mapping
\* cannot be encoded (it, or a value nested in it, is claimed by no encoder),
\* the call never ends normally; it fails with the child's exception after
\* exactly the tokens that precede the child in depth-first order and those
\* the child itself produced before failing (none when the child itself is
\* unclaimed), and every generator is then finished: nothing is delivered
\* after the failure.
C10_NoPartialSuccess ==
    (InCall /\ value.type \in {"list", "dict"} /\ EncodedByDefault(value)
     /\ FirstFailing(Children(value)) # 0) =>
        LET k == FirstFailing(Children(value))
            child == ProvideTokens(Children(value)[k])
            expected == Preceding(value, k) \o child.toks
        IN  /\ status # "done"
            /\ IsPrefix(out, expected)
            /\ AllDecline(Children(value)[k]) =>
                  /\ child.toks = <<>>
                  /\ child.end = UnsupportedTypeError(Children(value)[k].type)
            /\ status = "failed" =>
                  /\ out = expected
                  /\ error = child.end
                  /\ stack = <<>>

\* C10 witness: [1, (), 2] failed on the tuple after the header, List and 1
C10_Witness ==
    /\ status = "failed"
    /\ chain = <<"Default">>
    /\ value = PyList(<<PyInt("1"), PyTuple, PyInt("2")>>)
    /\ out = <<WXFExprFunction(3), WXFExprSymbol("List"), WXFExprInteger("1")>>
    /\ error = UnsupportedTypeError("tuple")

\* the encode invocations that executed a raise statement of their own with exc
RaisedByEncode(exc) ==
    { i \in DOMAIN log :
        \E k \in DOMAIN Encode(log[i].enc, log[i].o) :
            Encode(log[i].enc, log[i].o)[k] = Raise(exc) }

C12_EncodeLeavesChainUnchanged ==
    [][(status # "assembling" \/ status' # "assembling")
          => (chain' = chain /\ provider' = provider)]_vars

\* C12 witness: a call on a chain of two encoders has delegated through
\* serialize and failed; both encoders are still bound to the provider
C12_Witness ==
    /\ status = "failed"
    /\ chain = <<"FooEncoder", "Default">>
    /\ value = PyFoo(PyTuple)
    /\ Len(fin) >= 1
    /\ provider["FooEncoder"] = "chain"
    /\ provider["Default"] = "chain"

\* ------------------------------------------- two calls on the same provider
\* the encoders and the values of the calls that are interleaved
ConcEncoders == {"Default", "FooEncoder"}

ConcValues == Examples \cup {PyStr("a"), PyTuple}

\* a second consumer calls provide_wxfexpr(v) on the assembled provider
StartOther(v) ==
    /\ status \in {"active", "done", "failed"}
    /\ other.status = "idle"
    /\ other' = [status |-> "active", value |-> v, stack |-> <<ProvideFrame(v, 1)>>,
                 out |-> <<>>, error |-> NoExc]
    /\ UNCHANGED <<chain, provider, status, value, stack, out, error, log, fin, ncalls>>

\* the second consumer's next() on its own stream
PullOther ==
    /\ other.status = "active"
    /\ LET r == Resume(Machine(other.stack, SigNext, <<>>, <<>>, 1), other.out)
       IN  /\ other' = [other EXCEPT
                          !.stack = r.stack,
                          !.out = IF r.sig.t = "yield" THEN Append(other.out, r.sig.tok)
                                  ELSE other.out,
                          !.error = IF r.sig.t = "raise" THEN r.sig.exc ELSE NoExc,
                          !.status = IF r.sig.t = "yield" THEN "active"
                                     ELSE IF r.sig.t = "stop" THEN "done"
                                     ELSE "failed"]
           /\ provider' = r.provider
    /\ UNCHANGED <<chain, status, value, stack, out, error, log, fin, ncalls>>

NextConc ==
    \/ \E enc \in ConcEncoders, position \in {"append", "prepend"} : Register(enc, position)
    \/ \E v \in ConcValues : StartEncode(v)
    \/ Pull
    \/ \E v \in ConcValues : StartOther(v)
    \/ PullOther

\* registration, then two consumers pulling in any interleaving
SpecConc == Init /\ [][NextConc]_vars

\* what a call with this status, output and error has delivered agrees with
\* the call on v run alone
AgreesWithAlone(st, v, toks, exc) ==
    LET alone == ProvideTokens(v)
    IN  /\ IsPrefix(toks, alone.toks)
        /\ st = "done" => (toks = alone.toks /\ alone.end = NoExc)
        /\ st = "failed" => (toks = alone.toks /\ exc = alone.end)
        /\ st = "active" => exc = NoExc

\* C13: concurrent independent encode calls.  With the pulls of two calls on
\* one provider interleaved in any order, each call delivers a prefix of, and
\* at its end exactly, the tokens (or the error) of the same call run alone.
C13_InterleavedCallsAsAlone ==
    /\ InCall => AgreesWithAlone(status, value, out, error)
    /\ other.status # "idle" =>
          AgreesWithAlone(other.status, other.value, other.out, other.error)

\* C13 witness: two calls on different values, both part-way through their
\* streams, each inside a nested delegation
C13_Witness ==
    /\ status = "active"
    /\ other.status = "active"
    /\ value = PyList(<<PyInt("1"), PyList(<<PyInt("2"), PyInt("3")>>)>>)
    /\ other.value = PyFoo(PyList(<<PyInt("1"), PyStr("a")>>))
    /\ Len(out) = 5
    /\ Len(other.out) = 4

Registered == { chain[i] : i \in DOMAIN chain }

DefaultTypes == {"str", "int", "list", "dict", "bool", "NoneType", "float", "complex"}

\* the invocations of the default encoder on a value outside its categories
DefaultOutside ==
    { i \in DOMAIN log : log[i].enc = "Default" /\ log[i].o.type \notin DefaultTypes }

\* the position of the invocation's encoder in the chain
ChainPos(i) == CHOOSE p \in DOMAIN chain : chain[p] = log[i].enc

\* C16: the default encoder declines everything outside its eight
\* categories.  Invoked on such a value its encode produces no token and
\* raises nothing; the encoder registered next is then invoked on the same
\* value with no token delivered in between, and with no encoder after it
\* the call has failed with UnsupportedTypeError of the value's type.
C16_DefaultDeclinesOthers ==
    \A i \in DefaultOutside :
        LET o == log[i].o
            run == EncodeRun("Default", o)
        IN  /\ run.toks = <<>>
            /\ run.end = NoExc
            /\ Declines("Default", o)
            /\ ChainPos(i) < Len(chain) =>
                  /\ i < Len(log)
                  /\ log[i + 1] = [log[i] EXCEPT !.enc = chain[ChainPos(i) + 1]]
            /\ ChainPos(i) = Len(chain) =>
                  /\ status = "failed"
                  /\ error = UnsupportedTypeError(o.type)
                  /\ Len(out) = log[i].at
                  /\ i = Len(log)

\* C16 witness: the default encoder, first of the chain, was invoked on a Foo
\* and the encoder registered after it delivered the Foo's stream
C16_Witness ==
    /\ status = "done"
    /\ chain = <<"Default", "FooEncoder">>
    /\ value = PyFoo(PyList(<<PyInt("1"), PyStr("a")>>))
    /\ DefaultOutside = {1}
    /\ log[2].enc = "FooEncoder"
    /\ Len(out) = 6

\* ------------------------------------- encoders whose elements may be None
\* encode is any generator: a sub-class may yield None among its elements
RawEncoders == {"Default", "NoneEncoder", "FooEncoder"}

RawValues ==
    Examples \cup {PyStr("a"), PyInt("1"), PyFloat("1.5"), PyNone, PyTuple,
                   PyList(<<PyInt("1")>>), PyFoo(PyStr("a"))}

NextRaw ==
    \/ \E enc \in RawEncoders, position \in {"append", "prepend"} : Register(enc, position)
    \/ \E v \in RawValues : StartEncode(v)
    \/ Pull

SpecRaw == Init /\ [][NextRaw]_vars

\* C17: _encode reports unclaimed iff encode produced no element.  For every
\* encoder the provider invoked on a value: the wrapper raises
\* NotEncodedException exactly when the encoder's encode ended without
\* producing an element, and then nothing was forwarded; when encode
\* produced an element, the wrapper forwards every element in order and ends
\* as encode ended.
C17_UnclaimedIffNothingProduced ==
    \A i \in DOMAIN log :
        LET run == EncodeRun(log[i].enc, log[i].o)
            wrapped == Attempt(log[i].enc, log[i].o)
        IN  /\ (wrapped.end = NotEncodedException)
                  <=> (run.toks = <<>> /\ run.end = NoExc)
            /\ wrapped.end = NotEncodedException => wrapped.toks = <<>>
            /\ run.toks # <<>> => (wrapped.toks = run.toks /\ wrapped.end = run.end)

\* ------------------------------------------------------- pull-driven steps
\* the next() calls the consumer has made: one per token delivered, and the
\* one that found the end of the stream or the error
Requests == Len(out) + (IF status \in {"done", "failed"} THEN 1 ELSE 0)

\* the invocation whose encode made the delegation that invocation i serves
Enclosing(i) ==
    CHOOSE j \in 1..(i - 1) :
        /\ log[j].level = log[i].level - 1
        /\ \A k \in (j + 1)..(i - 1) : log[k].level # log[i].level - 1

HeaderKinds == {"Function", "Association"}

\* C18: pull-driven production, no read-ahead.  No code runs before the
\* first request; every encoder invocation was made by a request already
\* issued, on a sub-value whose first token is not beyond the requested
\* position; a suspended call rests on the yield of the token delivered
\* last; and an encoder is invoked on a child only after the header of the
\* enclosing value was delivered.
C18_NoReadAhead ==
    InCall =>
        /\ \A i \in DOMAIN log : log[i].at < Requests
        /\ (status = "active" /\ out = <<>>) =>
              (log = <<>> /\ stack = <<ProvideFrame(value, 1)>>)
        /\ (status = "active" /\ out # <<>>) =>
              LET f == Top(stack)
              IN  /\ f.kind = "encode"
                  /\ f.pc >= 2
                  /\ Encode(f.enc, f.o)[f.pc - 1] = Yield(Last(out))
                  /\ \A i \in DOMAIN log : log[i].at < Len(out)
        /\ \A i \in DOMAIN log :
              log[i].level > 1 =>
                  LET j == Enclosing(i)
                  IN  /\ log[i].at > log[j].at
                      /\ out[log[j].at + 1].kind \in HeaderKinds

\* C18 witness: the consumer stopped after the header of [1, [2, 3]] and
\* its first element; no encoder has been invoked on the inner list
C18_Witness ==
    /\ status = "abandoned"
    /\ chain = <<"Default">>
    /\ value = PyList(<<PyInt("1"), PyList(<<PyInt("2"), PyInt("3")>>)>>)
    /\ Len(out) = 3
    /\ Len(log) = 2
    /\ \A i \in DOMAIN log : log[i].o # PyList(<<PyInt("2"), PyInt("3")>>)

\* ------------------------------------------------------------- termination
\* a consumer that keeps pulling: it never abandons a stream, and every
\* stream it started is pulled again as long as it has not ended
PullEncoders == {"Default", "FooEncoder", "RaisingEncoder"}

NextPull ==
    \/ \E enc \in PullEncoders, position \in {"append", "prepend"} : Register(enc, position)
    \/ \E v \in Values : StartEncode(v)
    \/ Pull
    \/ Release

SpecPull == Init /\ [][NextPull]_vars /\ WF_vars(Pull)

Max(S) == CHOOSE x \in S : \A y \in S : y <= x

\* the nesting depth of a value: 1 for a value without sub-values handed to
\* the chain, one more than its deepest element for a list, a mapping (its
\* keys and values) or a Foo (its attribute)
RECURSIVE Depth(_)
Depth(v) ==
    IF v.type \in {"list", "Foo"}
    THEN 1 + Max({0} \cup { Depth(v.items[i]) : i \in DOMAIN v.items })
    ELSE IF v.type = "dict"
    THEN 1 + Max({0} \cup UNION { { Depth(v.items[i].items[1]), Depth(v.items[i].items[2]) } :
                                    i \in DOMAIN v.items })
    ELSE 1

Ended == status \in {"done", "failed"}

====
